---- MODULE Spec2Model ----
(***************************************************************************)
(* A model of textum: the transition-table automaton (fsm), the trie built *)
(* on it (basic_trie) and the Aho-Corasick automaton (aho_corasick).       *)
(*                                                                         *)
(* Symbols are small integers ordered as the keys of std::map are; state   *)
(* identifiers are the naturals the fsm hands out, 0 being the root.       *)
(* Iterators into the value table are modelled by their offset from        *)
(* begin(), so that end() is the offset size().                            *)
(***************************************************************************)
EXTENDS Integers, Sequences, FiniteSets, TLC

VARIABLES
    kind,                       \* "trie" or "aho_corasick": the class that is built
    input,                      \* the marked sequences given to the constructor
    consumed,                   \* how many pairs of input build_trie has processed
    pc,                         \* the position of the builder / the caller
    m_transitions,              \* fsm::m_transitions
    m_attributes,               \* m_attributes
    m_reachable_accept_values,  \* m_reachable_accept_values
    m_values,                   \* m_values
    m_value_indices,            \* m_value_indices
    states,                     \* the queue of build_suffix_links
    query,                      \* the query being served / served last
    stack,                      \* the stack of visit_close_states
    results,                    \* the buffer of the fuzzy find_prefix
    visited,                    \* the states visit_close_states has popped, in order
    out,                        \* what the query wrote to its output iterator / returned
    other                       \* a second caller of the queries: its call and its output

vars == <<kind, input, consumed, pc, m_transitions, m_attributes,
          m_reachable_accept_values, m_values, m_value_indices, states,
          query, stack, results, visited, out, other>>

structure == <<m_transitions, m_attributes, m_reachable_accept_values,
               m_values, m_value_indices>>

(***************************************************************************)
(* Bounds of the model.                                                    *)
(***************************************************************************)
MaxPairs == 2       \* longest construction input
MaxTotalLen == 4    \* largest sum of the lengths of the sequences of an input
MaxLen == 3         \* longest query sequence / text of the exact operations

FuzzyMaxPairs == 2     \* longest construction input of the fuzzy searches
FuzzyMaxTotalLen == 2  \* largest sum of the lengths of its sequences
MaxQueryLen == 2       \* longest query of the fuzzy searches
MaxLimit == 1          \* largest finite distance_limit

MaxStates == 4      \* most states of an fsm grown by calls of add_transition alone

Symbols == {1, 2}
Labels == {1, 2}

SeqsUpTo(S, n) == UNION {[1..m -> S] : m \in 0..n}

RECURSIVE InputsWithin(_, _)
\* The lists of at most n (sequence, label) pairs whose sequences hold at most
\* total symbols together.
InputsWithin(n, total) ==
    {<<>>} \cup
    (IF n = 0 THEN {}
     ELSE UNION {{<<<<sequence, mark>>>> \o rest :
                    mark \in Labels, rest \in InputsWithin(n - 1, total - Len(sequence))} :
                 sequence \in SeqsUpTo(Symbols, total)})

Inputs == InputsWithin(MaxPairs, MaxTotalLen)
Queries == SeqsUpTo(Symbols, MaxLen)

FuzzyInputs == InputsWithin(FuzzyMaxPairs, FuzzyMaxTotalLen)
FuzzyQueries == SeqsUpTo(Symbols, MaxQueryLen)

(***************************************************************************)
(* Program constants.                                                      *)
(***************************************************************************)
\* not_set<std::uint32_t> is numeric_limits<uint32_t>::max(), 2^32 - 1: all 32 bits
\* set. It is written here as the same 32 bits read as a signed integer, the
\* widest the model checker's integers go; no state identifier equals it.
not_set == -1

root == 0

is_root(state) == state = root

DefaultAttribute ==
    [suffix_link |-> not_set, accept_suffix_link |-> not_set, is_accept |-> FALSE]

(***************************************************************************)
(* fsm                                                                     *)
(***************************************************************************)
fsm_size(tr) == Cardinality(DOMAIN tr)

\* next as it would be if it stayed at the source also when the transition exists.
fsm_next_staying(tr, source, symbol) ==
    IF symbol \in DOMAIN tr[source]
        THEN <<source, TRUE>>
        ELSE <<source, FALSE>>

fsm_next(tr, source, symbol) ==
    IF symbol \in DOMAIN tr[source]
        THEN <<tr[source][symbol], TRUE>>
        ELSE <<source, FALSE>>

\* add_transition as it would be with insert_or_assign in place of emplace.
add_transition_overwriting(tr, source, symbol) ==
    LET possible_destination == fsm_size(tr)
    IN  [fsm |-> (possible_destination :> <<>>)
                    @@ [tr EXCEPT ![source] = (symbol :> possible_destination) @@ @],
         destination |-> possible_destination,
         success |-> TRUE]

\* add_transition as it would be if it took the identifier of the new state
\* from the size less one.
add_transition_to_last(tr, source, symbol) ==
    LET possible_destination == fsm_size(tr) - 1
    IN  IF symbol \in DOMAIN tr[source]
            THEN [fsm |-> tr, destination |-> tr[source][symbol], success |-> FALSE]
            ELSE [fsm |-> [tr EXCEPT ![source] = (symbol :> possible_destination) @@ @],
                  destination |-> possible_destination,
                  success |-> TRUE]

add_transition(tr, source, symbol) ==
    LET possible_destination == fsm_size(tr)
    IN  IF symbol \in DOMAIN tr[source]
            THEN [fsm |-> tr, destination |-> tr[source][symbol], success |-> FALSE]
            ELSE [fsm |-> (possible_destination :> <<>>)
                            @@ [tr EXCEPT ![source] = (symbol :> possible_destination) @@ @],
                  destination |-> possible_destination,
                  success |-> TRUE]

RECURSIVE SortedSeq(_)
SortedSeq(S) ==
    IF S = {} THEN <<>>
    ELSE LET least == CHOOSE x \in S : \A y \in S : x <= y
         IN  <<least>> \o SortedSeq(S \ {least})

\* The (symbol, destination) pairs visit_transitions hands to its visitor, in
\* the order of the std::map that holds them.
visit_transitions(tr, source) ==
    LET symbols == SortedSeq(DOMAIN tr[source])
    IN  [i \in 1..Len(symbols) |-> <<symbols[i], tr[source][symbols[i]]>>]

(***************************************************************************)
(* basic_trie / aho_corasick: construction                                 *)
(***************************************************************************)
RECURSIVE traverse(_, _, _, _)
\* position counts the symbols of sequence consumed: position = Len(sequence)
\* is the code's position == last.
traverse(tr, state, sequence, position) ==
    IF position = Len(sequence) THEN [state |-> state, position |-> position]
    ELSE LET n == fsm_next(tr, state, sequence[position + 1])
         IN  IF ~n[2] THEN [state |-> state, position |-> position]
             ELSE traverse(tr, n[1], sequence, position + 1)

RECURSIVE grow_attributing_source(_, _, _, _, _)
\* grow as it would be if it made the attribute record before it moved to the
\* new state.
grow_attributing_source(tr, attrs, state, sequence, position) ==
    IF position = Len(sequence) THEN [fsm |-> tr, attributes |-> attrs, state |-> state]
    ELSE LET t == add_transition(tr, state, sequence[position + 1])
         IN  grow_attributing_source(t.fsm, (state :> DefaultAttribute) @@ attrs,
                                     t.destination, sequence, position + 1)

RECURSIVE grow(_, _, _, _, _)
grow(tr, attrs, state, sequence, position) ==
    IF position = Len(sequence) THEN [fsm |-> tr, attributes |-> attrs, state |-> state]
    ELSE LET t == add_transition(tr, state, sequence[position + 1])
         IN  grow(t.fsm, (t.destination :> DefaultAttribute) @@ attrs,
                  t.destination, sequence, position + 1)

RECURSIVE grow_anew(_, _, _, _, _)
\* grow as it would be if a new transition took the place of one already there.
grow_anew(tr, attrs, state, sequence, position) ==
    IF position = Len(sequence) THEN [fsm |-> tr, attributes |-> attrs, state |-> state]
    ELSE LET t == add_transition_overwriting(tr, state, sequence[position + 1])
         IN  grow_anew(t.fsm, (t.destination :> DefaultAttribute) @@ attrs,
                       t.destination, sequence, position + 1)

\* insert as it would be if it built a path of its own for every sequence and
\* did not walk the path already there.
insert_anew(tr, attrs, sequence) == grow_anew(tr, attrs, root, sequence, 0)

insert(tr, attrs, sequence) ==
    LET t == traverse(tr, root, sequence, 0)
    IN  grow(tr, attrs, t.state, sequence, t.position)

\* attach_value as it would be if a repeated sequence took the later label.
attach_value_last_wins(values, value_indices, attrs, state, mapped_value) ==
    LET new_value_index == Len(values)
    IN  IF state \in DOMAIN value_indices
            THEN [values |-> [values EXCEPT ![value_indices[state] + 1] = mapped_value],
                  value_indices |-> value_indices,
                  attributes |-> attrs,
                  index |-> value_indices[state], success |-> FALSE]
            ELSE [values |-> Append(values, mapped_value),
                  value_indices |-> (state :> new_value_index) @@ value_indices,
                  attributes |-> [attrs EXCEPT ![state].is_accept = TRUE],
                  index |-> new_value_index, success |-> TRUE]

\* attach_value as it would be if it put a new value before the stored ones.
attach_value_at_front(values, value_indices, attrs, state, mapped_value) ==
    IF state \in DOMAIN value_indices
        THEN [values |-> values, value_indices |-> value_indices,
              attributes |-> attrs,
              index |-> value_indices[state], success |-> FALSE]
        ELSE [values |-> <<mapped_value>> \o values,
              value_indices |->
                (state :> 0) @@ [s \in DOMAIN value_indices |-> value_indices[s] + 1],
              attributes |-> [attrs EXCEPT ![state].is_accept = TRUE],
              index |-> 0, success |-> TRUE]

\* attach_value as it would be if it did not mark the state accepting.
attach_value_unmarked(values, value_indices, attrs, state, mapped_value) ==
    LET new_value_index == Len(values)
    IN  IF state \in DOMAIN value_indices
            THEN [values |-> values, value_indices |-> value_indices,
                  attributes |-> attrs,
                  index |-> value_indices[state], success |-> FALSE]
            ELSE [values |-> Append(values, mapped_value),
                  value_indices |-> (state :> new_value_index) @@ value_indices,
                  attributes |-> attrs,
                  index |-> new_value_index, success |-> TRUE]

attach_value(values, value_indices, attrs, state, mapped_value) ==
    LET new_value_index == Len(values)
    IN  IF state \in DOMAIN value_indices
            THEN [values |-> values, value_indices |-> value_indices,
                  attributes |-> attrs,
                  index |-> value_indices[state], success |-> FALSE]
            ELSE [values |-> Append(values, mapped_value),
                  value_indices |-> (state :> new_value_index) @@ value_indices,
                  attributes |-> [attrs EXCEPT ![state].is_accept = TRUE],
                  index |-> new_value_index, success |-> TRUE]

attach_reachable_value(reachable, state, value_index) ==
    IF state \in DOMAIN reachable
        THEN [reachable EXCEPT ![state] = Append(@, value_index)]
        ELSE (state :> <<value_index>>) @@ reachable

RECURSIVE visit_sources_of_path(_, _, _, _)
\* The states the visitor is called with: every state of the path of sequence
\* but the last one.
visit_sources_of_path(tr, state, sequence, position) ==
    IF position = Len(sequence) THEN <<>>
    ELSE <<state>> \o visit_sources_of_path(tr, fsm_next(tr, state, sequence[position + 1])[1],
                                            sequence, position + 1)

RECURSIVE attach_reachable_values(_, _, _)
attach_reachable_values(reachable, path, value_index) ==
    IF path = <<>> THEN reachable
    ELSE attach_reachable_values(attach_reachable_value(reachable, Head(path), value_index),
                                 Tail(path), value_index)

\* build_trie as it would be if it stored the mark of a repeated sequence too.
build_trie_storing_repeated(tr, attrs, reachable, values, value_indices, sequence, mark) ==
    LET i == insert(tr, attrs, sequence)
        a == attach_value(values, value_indices, i.attributes, i.state, mark)
        path == visit_sources_of_path(i.fsm, root, sequence, 0)
    IN  [fsm |-> i.fsm,
         attributes |-> a.attributes,
         values |-> IF a.success THEN a.values ELSE Append(a.values, mark),
         value_indices |-> a.value_indices,
         reachable |->
            IF a.success
                THEN attach_reachable_value(
                        attach_reachable_values(reachable, path, a.index),
                        i.state, a.index)
                ELSE reachable]

\* build_trie as it would be if it cached the value index without looking at
\* the success of attach_value.
build_trie_caching_repeated(tr, attrs, reachable, values, value_indices, sequence, mark) ==
    LET i == insert(tr, attrs, sequence)
        a == attach_value(values, value_indices, i.attributes, i.state, mark)
        path == visit_sources_of_path(i.fsm, root, sequence, 0)
    IN  [fsm |-> i.fsm,
         attributes |-> a.attributes,
         values |-> a.values,
         value_indices |-> a.value_indices,
         reachable |->
            attach_reachable_value(
                attach_reachable_values(reachable, path, a.index),
                i.state, a.index)]

\* One iteration of the loop of build_trie: the pair (sequence, mark).
build_trie(tr, attrs, reachable, values, value_indices, sequence, mark) ==
    LET i == insert(tr, attrs, sequence)
        a == attach_value(values, value_indices, i.attributes, i.state, mark)
        path == visit_sources_of_path(i.fsm, root, sequence, 0)
    IN  [fsm |-> i.fsm,
         attributes |-> a.attributes,
         values |-> a.values,
         value_indices |-> a.value_indices,
         reachable |->
            IF a.success
                THEN attach_reachable_value(
                        attach_reachable_values(reachable, path, a.index),
                        i.state, a.index)
                ELSE reachable]

(***************************************************************************)
(* aho_corasick: the transition function and the links                     *)
(***************************************************************************)
\* next as it would be if it gave up at the first state without the transition.
next_without_retry(tr, attrs, source, symbol) ==
    LET n == fsm_next(tr, source, symbol)
    IN  IF n[2] THEN <<n[1], TRUE>> ELSE <<root, TRUE>>

RECURSIVE next_with_fsm_success(_, _, _, _)
\* next as it would be if, at the root, it returned the pair of the fsm whole.
next_with_fsm_success(tr, attrs, source, symbol) ==
    IF ~is_root(source)
        THEN LET n == fsm_next(tr, source, symbol)
             IN  IF n[2] THEN <<n[1], TRUE>>
                 ELSE next_with_fsm_success(tr, attrs, attrs[source].suffix_link, symbol)
        ELSE fsm_next(tr, source, symbol)

RECURSIVE next(_, _, _, _)
next(tr, attrs, source, symbol) ==
    IF ~is_root(source)
        THEN LET n == fsm_next(tr, source, symbol)
             IN  IF n[2] THEN <<n[1], TRUE>>
                 ELSE next(tr, attrs, attrs[source].suffix_link, symbol)
        ELSE <<fsm_next(tr, source, symbol)[1], TRUE>>

RECURSIVE set_root_children_merging_accept(_, _)
\* The visitor as it would be if it also marked a child of the root accepting
\* when the root accepts.
set_root_children_merging_accept(attrs, transitions) ==
    IF transitions = <<>> THEN attrs
    ELSE set_root_children_merging_accept(
            [attrs EXCEPT ![Head(transitions)[2]].suffix_link = root,
                          ![Head(transitions)[2]].is_accept = @ \/ attrs[root].is_accept],
            Tail(transitions))

\* The visitor as it would be if it only put the children of the root on the
\* queue.
set_root_children_unlinked(attrs, transitions) == attrs

RECURSIVE set_root_children(_, _)
\* The visitor of the transitions of the root in build_suffix_links.
set_root_children(attrs, transitions) ==
    IF transitions = <<>> THEN attrs
    ELSE set_root_children([attrs EXCEPT ![Head(transitions)[2]].suffix_link = root],
                           Tail(transitions))

\* The visitor as it would be if it took the transition from the source itself
\* and not from the source's suffix link.
set_links_from_source(tr, attrs, source, symbol, destination) ==
    LET sl == next(tr, attrs, source, symbol)[1]
    IN  [attrs EXCEPT
            ![destination].suffix_link = sl,
            ![destination].accept_suffix_link =
                IF attrs[sl].is_accept THEN sl ELSE attrs[sl].accept_suffix_link]

\* The visitor as it would be if it copied the suffix link to accept_suffix_link
\* without looking at is_accept.
set_links_copying_suffix_link(tr, attrs, source, symbol, destination) ==
    LET sl == next(tr, attrs, attrs[source].suffix_link, symbol)[1]
    IN  [attrs EXCEPT
            ![destination].suffix_link = sl,
            ![destination].accept_suffix_link = sl]

\* The visitor of the transitions of a dequeued state in build_suffix_links.
set_links(tr, attrs, source, symbol, destination) ==
    LET sl == next(tr, attrs, attrs[source].suffix_link, symbol)[1]
    IN  [attrs EXCEPT
            ![destination].suffix_link = sl,
            ![destination].accept_suffix_link =
                IF attrs[sl].is_accept THEN sl ELSE attrs[sl].accept_suffix_link]

RECURSIVE set_children_links(_, _, _, _)
set_children_links(tr, attrs, source, transitions) ==
    IF transitions = <<>> THEN attrs
    ELSE set_children_links(
            tr,
            set_links(tr, attrs, source, Head(transitions)[1], Head(transitions)[2]),
            source, Tail(transitions))

destinations(transitions) == [i \in 1..Len(transitions) |-> transitions[i][2]]

(***************************************************************************)
(* Exact queries                                                           *)
(***************************************************************************)
begin == 0

end(values) == Len(values)

size(values) == Len(values)

empty(values) == values = <<>>

\* begin()[index]
value_at(values, index) == values[index + 1]

\* find as it would be without the test position == last.
find_of_stalled_walk(tr, values, value_indices, sequence) ==
    LET t == traverse(tr, root, sequence, 0)
    IN  IF t.state \in DOMAIN value_indices
            THEN begin + value_indices[t.state]
            ELSE end(values)

find(tr, values, value_indices, sequence) ==
    LET t == traverse(tr, root, sequence, 0)
    IN  IF t.position = Len(sequence) /\ t.state \in DOMAIN value_indices
            THEN begin + value_indices[t.state]
            ELSE end(values)

collect_reachable(reachable, values, state) ==
    [i \in 1..Len(reachable[state]) |-> value_at(values, reachable[state][i])]

\* find_prefix as it would be without the test position == last.
find_prefix_of_stalled_walk(tr, reachable, values, sequence) ==
    collect_reachable(reachable, values, traverse(tr, root, sequence, 0).state)

find_prefix(tr, reachable, values, sequence) ==
    LET t == traverse(tr, root, sequence, 0)
    IN  IF t.position = Len(sequence)
            THEN collect_reachable(reachable, values, t.state)
            ELSE <<>>

RECURSIVE accept_suffix_chain(_, _, _, _)
\* The loop of collect_matching.
accept_suffix_chain(attrs, values, value_indices, state) ==
    IF state = not_set THEN <<>>
    ELSE <<value_at(values, value_indices[state])>>
            \o accept_suffix_chain(attrs, values, value_indices,
                                   attrs[state].accept_suffix_link)

\* collect_matching as it would be if it stopped at the state itself.
collect_matching_without_chain(attrs, values, value_indices, state) ==
    IF attrs[state].is_accept
        THEN <<value_at(values, value_indices[state])>>
        ELSE <<>>

\* collect_matching as it would be if it wrote the state's own label after the
\* labels of its chain.
collect_matching_chain_first(attrs, values, value_indices, state) ==
    accept_suffix_chain(attrs, values, value_indices, attrs[state].accept_suffix_link)
    \o (IF attrs[state].is_accept
            THEN <<value_at(values, value_indices[state])>>
            ELSE <<>>)

collect_matching(attrs, values, value_indices, state) ==
    (IF attrs[state].is_accept
        THEN <<value_at(values, value_indices[state])>>
        ELSE <<>>)
    \o accept_suffix_chain(attrs, values, value_indices, attrs[state].accept_suffix_link)

RECURSIVE match_reporting_first(_, _, _, _, _, _, _)
\* match as it would be if it reported the patterns that end at the state it
\* stands in before it read a symbol.
match_reporting_first(tr, attrs, values, value_indices, state, text, position) ==
    collect_matching(attrs, values, value_indices, state)
    \o (IF position = Len(text) THEN <<>>
        ELSE match_reporting_first(tr, attrs, values, value_indices,
                                   next(tr, attrs, state, text[position + 1])[1],
                                   text, position + 1))

RECURSIVE match(_, _, _, _, _, _, _)
match(tr, attrs, values, value_indices, state, text, position) ==
    IF position = Len(text) THEN <<>>
    ELSE LET next_state == next(tr, attrs, state, text[position + 1])[1]
         IN  collect_matching(attrs, values, value_indices, next_state)
                \o match(tr, attrs, values, value_indices, next_state, text, position + 1)

(***************************************************************************)
(* levenshtein_parameters_t                                                *)
(*                                                                         *)
(* The two penalty functors are functions over the symbols. Distances are  *)
(* sums of at most MaxQueryLen + FuzzyMaxTotalLen penalties of at most 3,  *)
(* far from the ends of a 32 bit integer.                                  *)
(***************************************************************************)
infinity == 2147483647

always_one == [x \in Symbols |-> 1]

inversed_indicator == [xy \in Symbols \X Symbols |-> IF xy[1] = xy[2] THEN 0 ELSE 1]

\* levenshtein(d): the default functors; default_functors tells that the
\* functors have the default types, on which the overloads of
\* fill_initial_levenshtein_row are chosen.
levenshtein(d) ==
    [distance_limit |-> d,
     deletion_or_insertion_penalty |-> always_one,
     replacement_penalty |-> inversed_indicator,
     default_functors |-> TRUE]

\* levenshtein(distance, deletion_or_insertion, replacement)
levenshtein_with(distance, deletion_or_insertion, replacement) ==
    [distance_limit |-> distance,
     deletion_or_insertion_penalty |-> deletion_or_insertion,
     replacement_penalty |-> replacement,
     default_functors |-> FALSE]

default_levenshtein == levenshtein(infinity)

\* The penalty functors the callers pass: free replacement and dear insertion,
\* dear replacement, penalties that depend on the symbols and on their order,
\* and a negative insertion penalty.
PenaltyFunctors ==
    { <<[x \in Symbols |-> 2], [xy \in Symbols \X Symbols |-> 0]>>,
      <<always_one, [xy \in Symbols \X Symbols |-> IF xy[1] = xy[2] THEN 0 ELSE 3]>>,
      <<[x \in Symbols |-> x],
        [xy \in Symbols \X Symbols |->
            IF xy[1] = xy[2] THEN 0 ELSE IF xy[1] < xy[2] THEN 2 ELSE 1]>>,
      <<[x \in Symbols |-> 0 - 1], inversed_indicator>> }

Limits == 0..MaxLimit

Parameters ==
    {default_levenshtein}
    \cup {levenshtein(d) : d \in Limits}
    \cup {levenshtein_with(d, f[1], f[2]) : d \in Limits, f \in PenaltyFunctors}

(***************************************************************************)
(* The fuzzy searches                                                      *)
(***************************************************************************)
Min2(a, b) == IF a <= b THEN a ELSE b

\* std::min of the three candidates of a cell, as it would be if the deletion
\* of the automaton's symbol were priced as the query's symbol is.
levenshtein_cell_pricing_value(p, left, above, diagonal, value, symbol) ==
    Min2(left + p.deletion_or_insertion_penalty[value],
         Min2(above + p.deletion_or_insertion_penalty[value],
              diagonal + p.replacement_penalty[<<value, symbol>>]))

\* std::min of the three candidates of a cell in fill_levenshtein_row: left is
\* destination_row[i - 1], above is source_row[i], diagonal is source_row[i - 1].
levenshtein_cell(p, left, above, diagonal, value, symbol) ==
    Min2(left + p.deletion_or_insertion_penalty[value],
         Min2(above + p.deletion_or_insertion_penalty[symbol],
              diagonal + p.replacement_penalty[<<value, symbol>>]))

RECURSIVE fill_initial_levenshtein_row_from(_, _, _, _)
\* Rows hold the code's row[i] at index i + 1; pattern[i - 1] of the code is
\* pattern[i] here.
fill_initial_levenshtein_row_from(p, initial_row, pattern, i) ==
    IF i = Len(initial_row) THEN initial_row
    ELSE fill_initial_levenshtein_row_from(
            p,
            [initial_row EXCEPT
                ![i + 1] = initial_row[i] + p.deletion_or_insertion_penalty[pattern[i]]],
            pattern, i + 1)

iota(n) == [i \in 1..n |-> i - 1]

fill_initial_levenshtein_row(p, initial_row, pattern) ==
    IF p.default_functors
        THEN iota(Len(initial_row))
        ELSE fill_initial_levenshtein_row_from(p, [initial_row EXCEPT ![1] = 0], pattern, 1)

RECURSIVE fill_levenshtein_row_from(_, _, _, _, _, _)
fill_levenshtein_row_from(p, source_row, destination_row, symbol, pattern, i) ==
    IF i = Len(destination_row) THEN destination_row
    ELSE fill_levenshtein_row_from(
            p, source_row,
            [destination_row EXCEPT
                ![i + 1] = levenshtein_cell(p, destination_row[i], source_row[i + 1],
                                            source_row[i], pattern[i], symbol)],
            symbol, pattern, i + 1)

fill_levenshtein_row(p, source_row, destination_row, symbol, pattern) ==
    fill_levenshtein_row_from(
        p, source_row,
        [destination_row EXCEPT
            ![1] = source_row[1] + p.deletion_or_insertion_penalty[symbol]],
        symbol, pattern, 1)

back(row) == row[Len(row)]

\* The test of visit_close_states on whether to expand a state, as it would be
\* if it looked at the last cell only.
not_too_far_away_at_back(p, source_row) == back(source_row) <= p.distance_limit

\* The test of visit_close_states on whether to expand a state, as it would be
\* with std::all_of.
all_not_too_far_away(p, source_row) ==
    \A i \in 1..Len(source_row) : source_row[i] <= p.distance_limit

\* std::any_of(source_row, not_too_far_away)
any_not_too_far_away(p, source_row) ==
    \E i \in 1..Len(source_row) : source_row[i] <= p.distance_limit

\* What the visitor of the transitions of source pushes, as it would be if it
\* pushed every destination twice.
pushed_twice(tr, p, source, source_row, pattern) ==
    LET transitions == visit_transitions(tr, source) \o visit_transitions(tr, source)
    IN  [i \in 1..Len(transitions) |->
            [state |-> transitions[i][2],
             row |-> fill_levenshtein_row(p, source_row, source_row,
                                          transitions[i][1], pattern)]]

\* What the visitor of the transitions of source pushes, in the order it pushes.
pushed(tr, p, source, source_row, pattern) ==
    LET transitions == visit_transitions(tr, source)
    IN  [i \in 1..Len(transitions) |->
            [state |-> transitions[i][2],
             row |-> fill_levenshtein_row(p, source_row, source_row,
                                          transitions[i][1], pattern)]]

\* The visitor find passes to visit_close_states: what it writes to result.
find_visitor(attrs, values, value_indices, state, distance) ==
    IF attrs[state].is_accept
        THEN << <<value_at(values, value_indices[state]), distance>> >>
        ELSE <<>>

\* collect_reachable with a distance: the visitor of the fuzzy find_prefix.
collect_reachable_with_distance(reachable, values, state, distance) ==
    [i \in 1..Len(reachable[state]) |-> <<value_at(values, reachable[state][i]), distance>>]

\* operator< of std::pair
PairLess(l, r) == l[1] < r[1] \/ (l[1] = r[1] /\ l[2] < r[2])

RECURSIVE sort(_)
\* std::sort: the elements in ascending order (equal elements are equal pairs).
sort(sequence) ==
    IF sequence = <<>> THEN <<>>
    ELSE LET least == CHOOSE i \in 1..Len(sequence) :
                        \A j \in 1..Len(sequence) : ~PairLess(sequence[j], sequence[i])
         IN  <<sequence[least]>>
                \o sort(SubSeq(sequence, 1, least - 1)
                        \o SubSeq(sequence, least + 1, Len(sequence)))

RECURSIVE keep(_, _)
\* The elements of sequence at the indices of the set wanted, in order.
keep(sequence, wanted) ==
    IF sequence = <<>> THEN <<>>
    ELSE keep(SubSeq(sequence, 1, Len(sequence) - 1), wanted)
            \o (IF Len(sequence) \in wanted THEN <<sequence[Len(sequence)]>> ELSE <<>>)

\* std::unique as it would be with the default equality of pairs.
unique_pairs(sequence) ==
    keep(sequence, {i \in 1..Len(sequence) : i = 1 \/ sequence[i - 1] # sequence[i]})

\* std::unique as it would be if it kept the last element of a run.
unique_keeping_last(sequence) ==
    keep(sequence, {i \in 1..Len(sequence) :
                        i = Len(sequence) \/ sequence[i + 1][1] # sequence[i][1]})

\* std::unique with the predicate l.first == r.first: the first element of every
\* run of equal labels.
unique(sequence) ==
    keep(sequence, {i \in 1..Len(sequence) : i = 1 \/ sequence[i - 1][1] # sequence[i][1]})

(***************************************************************************)
(* The state machine                                                       *)
(***************************************************************************)
NoQuery == [op |-> "none"]

\* The second caller has no call in progress.
NoReader == [query |-> NoQuery, during |-> "none", out |-> <<>>]

\* The state after construction as it would be if fsm() made no root.
Init_without_root ==
    /\ kind \in {"trie", "aho_corasick"}
    /\ input \in Inputs
    /\ consumed = 0
    /\ pc = "build_trie"
    /\ m_transitions = <<>>
    /\ m_attributes = (root :> DefaultAttribute)
    /\ m_reachable_accept_values = (root :> <<>>)
    /\ m_values = <<>>
    /\ m_value_indices = <<>>
    /\ states = <<>>
    /\ query = NoQuery
    /\ stack = <<>>
    /\ results = <<>>
    /\ visited = <<>>
    /\ out = <<>>
    /\ other = NoReader

Init ==
    /\ kind \in {"trie", "aho_corasick"}
    /\ input \in Inputs
    /\ consumed = 0
    /\ pc = "build_trie"
    /\ m_transitions = (root :> <<>>)
    /\ m_attributes = (root :> DefaultAttribute)
    /\ m_reachable_accept_values = (root :> <<>>)
    /\ m_values = <<>>
    /\ m_value_indices = <<>>
    /\ states = <<>>
    /\ query = NoQuery
    /\ stack = <<>>
    /\ results = <<>>
    /\ visited = <<>>
    /\ out = <<>>
    /\ other = NoReader

BuildTrieStep ==
    /\ pc = "build_trie"
    /\ consumed < Len(input)
    /\ LET b == build_trie(m_transitions, m_attributes, m_reachable_accept_values,
                           m_values, m_value_indices,
                           input[consumed + 1][1], input[consumed + 1][2])
       IN  /\ m_transitions' = b.fsm
           /\ m_attributes' = b.attributes
           /\ m_reachable_accept_values' = b.reachable
           /\ m_values' = b.values
           /\ m_value_indices' = b.value_indices
    /\ consumed' = consumed + 1
    /\ UNCHANGED <<other, kind, input, pc, states, query, stack, results, visited, out>>

\* The end of build_trie; initialize of aho_corasick goes on to the links.
BuildTrieDone ==
    /\ pc = "build_trie"
    /\ consumed = Len(input)
    /\ pc' = IF kind = "aho_corasick" THEN "build_suffix_links" ELSE "ready"
    /\ UNCHANGED <<other, kind, input, consumed, structure, states, query, stack, results,
                   visited, out>>

\* build_suffix_links up to its loop: the root and its children.
BuildSuffixLinksRoot ==
    /\ pc = "build_suffix_links"
    /\ LET transitions == visit_transitions(m_transitions, root)
       IN  /\ m_attributes' =
                set_root_children([m_attributes EXCEPT ![root].suffix_link = root],
                                  transitions)
           /\ states' = destinations(transitions)
    /\ pc' = "build_suffix_links_loop"
    /\ UNCHANGED <<other, kind, input, consumed, m_transitions, m_reachable_accept_values,
                   m_values, m_value_indices, query, stack, results, visited, out>>

\* One iteration of the loop of build_suffix_links.
BuildSuffixLinksStep ==
    /\ pc = "build_suffix_links_loop"
    /\ states # <<>>
    /\ LET state == Head(states)
           transitions == visit_transitions(m_transitions, state)
       IN  /\ m_attributes' =
                set_children_links(m_transitions, m_attributes, state, transitions)
           /\ states' = Tail(states) \o destinations(transitions)
    /\ UNCHANGED <<other, kind, input, consumed, pc, m_transitions, m_reachable_accept_values,
                   m_values, m_value_indices, query, stack, results, visited, out>>

BuildSuffixLinksDone ==
    /\ pc = "build_suffix_links_loop"
    /\ states = <<>>
    /\ pc' = "ready"
    /\ UNCHANGED <<other, kind, input, consumed, structure, states, query, stack, results,
                   visited, out>>

Build ==
    \/ BuildTrieStep
    \/ BuildTrieDone
    \/ BuildSuffixLinksRoot
    \/ BuildSuffixLinksStep
    \/ BuildSuffixLinksDone

Find ==
    /\ pc = "ready"
    /\ \E sequence \in Queries :
        /\ query' = [op |-> "find", sequence |-> sequence]
        /\ out' = find(m_transitions, m_values, m_value_indices, sequence)
    /\ pc' = "done"
    /\ UNCHANGED <<other, kind, input, consumed, structure, states, stack, results, visited>>

FindPrefix ==
    /\ pc = "ready"
    /\ \E sequence \in Queries :
        /\ query' = [op |-> "find_prefix", sequence |-> sequence]
        /\ out' = find_prefix(m_transitions, m_reachable_accept_values, m_values, sequence)
    /\ pc' = "done"
    /\ UNCHANGED <<other, kind, input, consumed, structure, states, stack, results, visited>>

Match ==
    /\ pc = "ready"
    /\ kind = "aho_corasick"
    /\ \E text \in Queries :
        /\ query' = [op |-> "match", sequence |-> text]
        /\ out' = match(m_transitions, m_attributes, m_values, m_value_indices,
                        root, text, 0)
    /\ pc' = "done"
    /\ UNCHANGED <<other, kind, input, consumed, structure, states, stack, results, visited>>

\* The caller takes the result; the structure is ready for the next query.
Return ==
    /\ pc = "done"
    /\ pc' = "ready"
    /\ query' = NoQuery
    /\ out' = <<>>
    /\ results' = <<>>
    /\ visited' = <<>>
    /\ UNCHANGED <<other, kind, input, consumed, structure, states, stack>>

InitFuzzy ==
    /\ kind \in {"trie", "aho_corasick"}
    /\ input \in FuzzyInputs
    /\ consumed = 0
    /\ pc = "build_trie"
    /\ m_transitions = (root :> <<>>)
    /\ m_attributes = (root :> DefaultAttribute)
    /\ m_reachable_accept_values = (root :> <<>>)
    /\ m_values = <<>>
    /\ m_value_indices = <<>>
    /\ states = <<>>
    /\ query = NoQuery
    /\ stack = <<>>
    /\ results = <<>>
    /\ visited = <<>>
    /\ out = <<>>
    /\ other = NoReader

\* visit_close_states up to its loop, called by the fuzzy find.
FuzzyFind ==
    /\ pc = "ready"
    /\ \E p \in Parameters, sequence \in FuzzyQueries :
        /\ query' = [op |-> "fuzzy_find", p |-> p, sequence |-> sequence]
        /\ stack' = << [state |-> root,
                        row |-> fill_initial_levenshtein_row(
                                    p, [i \in 1..(Len(sequence) + 1) |-> 0], sequence)] >>
    /\ pc' = "visit_close_states"
    /\ UNCHANGED <<other, kind, input, consumed, structure, states, results, visited, out>>

\* visit_close_states up to its loop, called by the fuzzy find_prefix, which
\* basic_trie alone has.
FuzzyFindPrefix ==
    /\ pc = "ready"
    /\ kind = "trie"
    /\ \E p \in Parameters, sequence \in FuzzyQueries :
        /\ query' = [op |-> "fuzzy_find_prefix", p |-> p, sequence |-> sequence]
        /\ stack' = << [state |-> root,
                        row |-> fill_initial_levenshtein_row(
                                    p, [i \in 1..(Len(sequence) + 1) |-> 0], sequence)] >>
    /\ pc' = "visit_close_states"
    /\ UNCHANGED <<other, kind, input, consumed, structure, states, results, visited, out>>

\* One iteration of the loop of visit_close_states, the visitor included.
VisitCloseStatesStep ==
    /\ pc = "visit_close_states"
    /\ stack # <<>>
    /\ LET source == stack[Len(stack)].state
           source_row == stack[Len(stack)].row
           popped == SubSeq(stack, 1, Len(stack) - 1)
           close == back(source_row) <= query.p.distance_limit
       IN  /\ out' =
                IF close /\ query.op = "fuzzy_find"
                    THEN out \o find_visitor(m_attributes, m_values, m_value_indices,
                                             source, back(source_row))
                    ELSE out
           /\ results' =
                IF close /\ query.op = "fuzzy_find_prefix"
                    THEN results \o collect_reachable_with_distance(
                                        m_reachable_accept_values, m_values,
                                        source, back(source_row))
                    ELSE results
           /\ stack' =
                IF any_not_too_far_away(query.p, source_row)
                    THEN popped \o pushed(m_transitions, query.p, source, source_row,
                                          query.sequence)
                    ELSE popped
           /\ visited' = Append(visited, source)
    /\ UNCHANGED <<other, kind, input, consumed, pc, structure, states, query>>

\* The end of the loop; the fuzzy find_prefix sorts its buffer, drops the
\* repeated labels and copies the rest to result.
VisitCloseStatesDone ==
    /\ pc = "visit_close_states"
    /\ stack = <<>>
    /\ out' = IF query.op = "fuzzy_find_prefix" THEN unique(sort(results)) ELSE out
    /\ pc' = "done"
    /\ UNCHANGED <<other, kind, input, consumed, structure, states, query, stack, results,
                   visited>>

Next ==
    \/ Build
    \/ Find
    \/ FindPrefix
    \/ Match
    \/ Return

Spec == Init /\ [][Next]_vars

NextFuzzy ==
    \/ Build
    \/ FuzzyFind
    \/ FuzzyFindPrefix
    \/ VisitCloseStatesStep
    \/ VisitCloseStatesDone
    \/ Return

SpecFuzzy == InitFuzzy /\ [][NextFuzzy]_vars

\* The fuzzy find alone, of both classes: the traversal visit_close_states.
NextCloseStates ==
    \/ Build
    \/ FuzzyFind
    \/ VisitCloseStatesStep
    \/ VisitCloseStatesDone
    \/ Return

SpecCloseStates == InitFuzzy /\ [][NextCloseStates]_vars

\* The loop of visit_close_states is sequential code: once entered it goes on
\* until it leaves.
SpecCloseStatesFair ==
    /\ SpecCloseStates
    /\ WF_vars(VisitCloseStatesStep)
    /\ WF_vars(VisitCloseStatesDone)

(***************************************************************************)
(* Two callers of the queries of one structure. The first runs the fuzzy   *)
(* searches step by step, with levenshtein(MaxLimit); the second calls the *)
(* exact queries at any moment after the construction, also between two    *)
(* steps of the first. Each call works on its own locals.                  *)
(***************************************************************************)
ReaderInputs == InputsWithin(FuzzyMaxPairs - 1, FuzzyMaxTotalLen)
ReaderQueries == SeqsUpTo(Symbols, MaxQueryLen - 1)

InitReaders ==
    /\ kind \in {"trie", "aho_corasick"}
    /\ input \in ReaderInputs
    /\ consumed = 0
    /\ pc = "build_trie"
    /\ m_transitions = (root :> <<>>)
    /\ m_attributes = (root :> DefaultAttribute)
    /\ m_reachable_accept_values = (root :> <<>>)
    /\ m_values = <<>>
    /\ m_value_indices = <<>>
    /\ states = <<>>
    /\ query = NoQuery
    /\ stack = <<>>
    /\ results = <<>>
    /\ visited = <<>>
    /\ out = <<>>
    /\ other = NoReader

ReaderFuzzyFind ==
    /\ pc = "ready"
    /\ \E sequence \in ReaderQueries :
        LET p == levenshtein(MaxLimit)
        IN  /\ query' = [op |-> "fuzzy_find", p |-> p, sequence |-> sequence]
            /\ stack' = << [state |-> root,
                            row |-> fill_initial_levenshtein_row(
                                        p, [i \in 1..(Len(sequence) + 1) |-> 0],
                                        sequence)] >>
    /\ pc' = "visit_close_states"
    /\ UNCHANGED <<other, kind, input, consumed, structure, states, results, visited, out>>

\* find_levenshtein: the fuzzy find with the default parameters.
ReaderFindLevenshtein ==
    /\ pc = "ready"
    /\ \E sequence \in ReaderQueries :
        LET p == default_levenshtein
        IN  /\ query' = [op |-> "fuzzy_find", p |-> p, sequence |-> sequence]
            /\ stack' = << [state |-> root,
                            row |-> fill_initial_levenshtein_row(
                                        p, [i \in 1..(Len(sequence) + 1) |-> 0],
                                        sequence)] >>
    /\ pc' = "visit_close_states"
    /\ UNCHANGED <<other, kind, input, consumed, structure, states, results, visited, out>>

ReaderFuzzyFindPrefix ==
    /\ pc = "ready"
    /\ kind = "trie"
    /\ \E sequence \in ReaderQueries :
        LET p == levenshtein(MaxLimit)
        IN  /\ query' = [op |-> "fuzzy_find_prefix", p |-> p, sequence |-> sequence]
            /\ stack' = << [state |-> root,
                            row |-> fill_initial_levenshtein_row(
                                        p, [i \in 1..(Len(sequence) + 1) |-> 0],
                                        sequence)] >>
    /\ pc' = "visit_close_states"
    /\ UNCHANGED <<other, kind, input, consumed, structure, states, results, visited, out>>

\* The structure is built: the second caller may call.
OtherMayCall ==
    /\ pc \in {"ready", "visit_close_states", "done"}
    /\ other = NoReader

\* find of the second caller as it would be if it looked the state up with
\* operator[] of the map and not with find.
OtherFind_subscript ==
    /\ OtherMayCall
    /\ \E sequence \in ReaderQueries :
        LET t == traverse(m_transitions, root, sequence, 0)
            indices == IF t.position = Len(sequence) /\ t.state \notin DOMAIN m_value_indices
                        THEN (t.state :> 0) @@ m_value_indices
                        ELSE m_value_indices
        IN  /\ m_value_indices' = indices
            /\ other' = [query |-> [op |-> "find", sequence |-> sequence],
                         during |-> pc,
                         out |-> find(m_transitions, m_values, indices, sequence)]
    /\ UNCHANGED <<kind, input, consumed, pc, m_transitions, m_attributes,
                   m_reachable_accept_values, m_values, states, query, stack, results,
                   visited, out>>

OtherFind ==
    /\ OtherMayCall
    /\ \E sequence \in ReaderQueries :
        other' = [query |-> [op |-> "find", sequence |-> sequence],
                  during |-> pc,
                  out |-> find(m_transitions, m_values, m_value_indices, sequence)]
    /\ UNCHANGED <<kind, input, consumed, pc, structure, states, query, stack, results,
                   visited, out>>

OtherFindPrefix ==
    /\ OtherMayCall
    /\ \E sequence \in ReaderQueries :
        other' = [query |-> [op |-> "find_prefix", sequence |-> sequence],
                  during |-> pc,
                  out |-> find_prefix(m_transitions, m_reachable_accept_values,
                                      m_values, sequence)]
    /\ UNCHANGED <<kind, input, consumed, pc, structure, states, query, stack, results,
                   visited, out>>

OtherMatch ==
    /\ OtherMayCall
    /\ kind = "aho_corasick"
    /\ \E text \in ReaderQueries :
        other' = [query |-> [op |-> "match", sequence |-> text],
                  during |-> pc,
                  out |-> match(m_transitions, m_attributes, m_values, m_value_indices,
                                root, text, 0)]
    /\ UNCHANGED <<kind, input, consumed, pc, structure, states, query, stack, results,
                   visited, out>>

\* The second caller takes its result.
OtherReturn ==
    /\ other # NoReader
    /\ other' = NoReader
    /\ UNCHANGED <<kind, input, consumed, pc, structure, states, query, stack, results,
                   visited, out>>

NextReaders ==
    \/ Build
    \/ ReaderFuzzyFind
    \/ ReaderFindLevenshtein
    \/ ReaderFuzzyFindPrefix
    \/ VisitCloseStatesStep
    \/ VisitCloseStatesDone
    \/ Return
    \/ OtherFind
    \/ OtherFindPrefix
    \/ OtherMatch
    \/ OtherReturn

SpecReaders == InitReaders /\ [][NextReaders]_vars

(***************************************************************************)
(* fsm on its own: any calls of add_transition and next, in any order      *)
(***************************************************************************)
InitFsm ==
    /\ kind = "fsm"
    /\ input = <<>>
    /\ consumed = 0
    /\ pc = "ready"
    /\ m_transitions = (root :> <<>>)
    /\ m_attributes = (root :> DefaultAttribute)
    /\ m_reachable_accept_values = (root :> <<>>)
    /\ m_values = <<>>
    /\ m_value_indices = <<>>
    /\ states = <<>>
    /\ query = NoQuery
    /\ stack = <<>>
    /\ results = <<>>
    /\ visited = <<>>
    /\ out = <<>>
    /\ other = NoReader

FsmAddTransition ==
    /\ pc = "ready"
    /\ kind = "fsm"
    /\ \E source \in DOMAIN m_transitions, symbol \in Symbols :
        /\ fsm_size(m_transitions) < MaxStates \/ symbol \in DOMAIN m_transitions[source]
        /\ LET a == add_transition(m_transitions, source, symbol)
           IN  /\ m_transitions' = a.fsm
               /\ out' = <<a.destination, a.success>>
        /\ query' = [op |-> "add_transition", source |-> source, symbol |-> symbol]
    /\ pc' = "done"
    /\ UNCHANGED <<other, kind, input, consumed, m_attributes, m_reachable_accept_values,
                   m_values, m_value_indices, states, stack, results, visited>>

FsmNext ==
    /\ pc = "ready"
    /\ kind = "fsm"
    /\ \E source \in DOMAIN m_transitions, symbol \in Symbols :
        /\ out' = fsm_next(m_transitions, source, symbol)
        /\ query' = [op |-> "next", source |-> source, symbol |-> symbol]
    /\ pc' = "done"
    /\ UNCHANGED <<other, kind, input, consumed, structure, states, stack, results, visited>>

NextFsm ==
    \/ FsmAddTransition
    \/ FsmNext
    \/ Return

SpecFsm == InitFsm /\ [][NextFsm]_vars

(***************************************************************************)
(* What the claims are stated in: the input as the caller sees it.         *)
(***************************************************************************)
InputSequences == {input[i][1] : i \in 1..Len(input)}

\* The label of the first pair of the input whose sequence is sequence.
FirstLabel(sequence) ==
    LET first == CHOOSE i \in 1..Len(input) :
                    /\ input[i][1] = sequence
                    /\ \A j \in 1..(i - 1) : input[j][1] # sequence
    IN  input[first][2]

IsPrefixOf(p, s) == Len(p) <= Len(s) /\ SubSeq(s, 1, Len(p)) = p

\* The offsets at which s occurs in text as a contiguous substring.
OccurrencesIn(s, text) ==
    {i \in 0..(Len(text) - Len(s)) : SubSeq(text, i + 1, i + Len(s)) = s}

IsInnerSubstringOf(q, s) ==
    \E i \in OccurrencesIn(q, s) : i > 0 /\ i + Len(q) < Len(s)

Count(sequence, x) == Cardinality({i \in 1..Len(sequence) : sequence[i] = x})

Built == pc \in {"ready", "done"}

Answered(op) == pc = "done" /\ query.op = op

\* C1: find(q) returns a position other than end() if and only if q is the
\* sequence of at least one pair of the input; a proper prefix, a proper suffix
\* or an inner substring of a stored pattern that is not stored yields end().
C1_FindIffStored ==
    Answered("find") =>
        (out # end(m_values) <=> query.sequence \in InputSequences)

C1_Witness ==
    /\ Answered("find")
    /\ query.sequence # <<>>
    /\ query.sequence \notin InputSequences
    /\ \E s \in InputSequences : IsInnerSubstringOf(query.sequence, s)
    /\ out = end(m_values)

C3_SizeIsDistinctCount ==
    Built =>
        /\ size(m_values) = Cardinality(InputSequences)
        /\ empty(m_values) <=> Cardinality(InputSequences) = 0

C3_Witness ==
    /\ Built
    /\ Len(input) = 2
    /\ input[1][1] = input[2][1]
    /\ size(m_values) = 1
    /\ ~empty(m_values)

\* The labels find_prefix is to emit for the prefix p, as a count per label.
PrefixedBy(p, label) ==
    {s \in InputSequences : IsPrefixOf(p, s) /\ FirstLabel(s) = label}

\* C4: find_prefix(p, out) emits exactly the labels of the stored patterns that
\* have p as a prefix, one emission per such pattern, and nothing when no stored
\* pattern starts with p.
C4_ExactPrefixSearch ==
    Answered("find_prefix") =>
        /\ \A i \in 1..Len(out) : out[i] \in Labels
        /\ \A label \in Labels :
            Count(out, label) = Cardinality(PrefixedBy(query.sequence, label))

C4_Witness ==
    /\ Answered("find_prefix")
    /\ query.sequence # <<>>
    /\ Len(out) = 2
    /\ query.sequence \in InputSequences
    /\ \E s \in InputSequences : s # query.sequence /\ IsPrefixOf(query.sequence, s)

\* The occurrences in text of the stored patterns that carry label.
OccurrencesOfLabel(patterns, label, text) ==
    {<<s, i>> \in patterns \X (0..Len(text)) :
        FirstLabel(s) = label /\ i \in OccurrencesIn(s, text)}

Paths == UNION {{SubSeq(s, 1, n) : n \in 0..Len(s)} : s \in InputSequences} \cup {<<>>}

StateOf(path) == traverse(m_transitions, root, path, 0).state

ProperSuffixes(path) == {SubSeq(path, n, Len(path)) : n \in 2..(Len(path) + 1)}

\* The longest proper suffix of path that is a path of the trie; the empty
\* sequence when there is no other.
LongestSuffixPath(path) ==
    LET candidates == ProperSuffixes(path) \cap Paths
    IN  CHOOSE w \in candidates \cup {<<>>} :
            \A v \in candidates : Len(v) <= Len(w)

\* C10: after the link construction every state has its suffix link set, and
\* the link leads to the state of the longest proper suffix of the state's path
\* that is a path of the trie, the root when there is none.
C10_SuffixLinks ==
    pc = "ready" /\ kind = "aho_corasick" =>
        /\ \A s \in DOMAIN m_attributes :
            /\ m_attributes[s].suffix_link # not_set
            /\ \E path \in Paths : StateOf(path) = s
        /\ \A path \in Paths :
            m_attributes[StateOf(path)].suffix_link = StateOf(LongestSuffixPath(path))

\* A state whose link is reached only by retrying from a suffix link.
C10_Witness ==
    /\ Built /\ kind = "aho_corasick"
    /\ \E path \in Paths :
        /\ Len(path) = 3
        /\ Len(LongestSuffixPath(path)) = 1
        /\ SubSeq(path, 2, 2) \in Paths
        /\ m_attributes[StateOf(path)].suffix_link = StateOf(LongestSuffixPath(path))

(***************************************************************************)
(* The fuzzy searches: what the claims are stated in.                      *)
(***************************************************************************)
RECURSIVE Distance(_, _, _, _, _)
\* The weighted edit distance of Wagner and Fischer between the first i symbols
\* of q and the first j symbols of s: a symbol of either sequence is dropped at
\* the price deletion_or_insertion_penalty, a symbol of q is turned into a
\* symbol of s at the price replacement_penalty.
Distance(p, q, s, i, j) ==
    IF i = 0 /\ j = 0 THEN 0
    ELSE IF j = 0 THEN Distance(p, q, s, i - 1, 0) + p.deletion_or_insertion_penalty[q[i]]
    ELSE IF i = 0 THEN Distance(p, q, s, 0, j - 1) + p.deletion_or_insertion_penalty[s[j]]
    ELSE Min2(Distance(p, q, s, i - 1, j) + p.deletion_or_insertion_penalty[q[i]],
              Min2(Distance(p, q, s, i, j - 1) + p.deletion_or_insertion_penalty[s[j]],
                   Distance(p, q, s, i - 1, j - 1) + p.replacement_penalty[<<q[i], s[j]>>]))

EditDistance(p, q, s) == Distance(p, q, s, Len(q), Len(s))

NonNegative(p) ==
    /\ \A x \in Symbols : p.deletion_or_insertion_penalty[x] >= 0
    /\ \A xy \in Symbols \X Symbols : p.replacement_penalty[xy] >= 0

\* The stored patterns that carry label and lie at the distance d from q.
PatternsAt(p, q, label, d) ==
    {s \in InputSequences : FirstLabel(s) = label /\ EditDistance(p, q, s) = d}


\* C5: fuzzy soundness. Every pair (label, d) emitted by find(params, q, out),
\* whatever the parameters, has d <= distance_limit, and d is the weighted edit
\* distance between q and a stored pattern carrying the label: no more pairs
\* (label, d) are emitted than there are such patterns.
C5_FuzzySoundness ==
    Answered("fuzzy_find") =>
        \A i \in 1..Len(out) :
            /\ out[i][2] <= query.p.distance_limit
            /\ Count(out, out[i])
                <= Cardinality(PatternsAt(query.p, query.sequence, out[i][1], out[i][2]))

\* A pattern is emitted at the distance distance_limit exactly, reached by an
\* insertion under penalties that are not the default ones.
C5_Witness ==
    /\ Answered("fuzzy_find")
    /\ ~query.p.default_functors
    /\ query.p.distance_limit > 0
    /\ query.sequence # <<>>
    /\ \E i \in 1..Len(out) :
        /\ out[i][2] = query.p.distance_limit
        /\ \E s \in InputSequences :
            /\ s # <<>>
            /\ Len(s) # Len(query.sequence)
            /\ FirstLabel(s) = out[i][1]
            /\ EditDistance(query.p, query.sequence, s) = out[i][2]

\* C6: fuzzy completeness. With non-negative penalties every stored pattern
\* whose distance to q is at most distance_limit is emitted with that distance;
\* with the default parameters every stored pattern is emitted.
C6_FuzzyCompleteness ==
    Answered("fuzzy_find") /\ NonNegative(query.p) =>
        /\ \A s \in InputSequences :
            LET d == EditDistance(query.p, query.sequence, s)
                pair == <<FirstLabel(s), d>>
            IN  d <= query.p.distance_limit =>
                    Count(out, pair)
                        >= Cardinality(PatternsAt(query.p, query.sequence, pair[1], d))
        /\ query.p = default_levenshtein => Len(out) = Cardinality(InputSequences)

\* A subtree is skipped, and a pattern within the limit is emitted all the same.
C6_Witness ==
    /\ Answered("fuzzy_find")
    /\ NonNegative(query.p)
    /\ Len(visited) < fsm_size(m_transitions)
    /\ query.sequence # <<>>
    /\ \E i \in 1..Len(out) : out[i][2] = query.p.distance_limit

\* The distances within the limit between q and the prefixes of the stored
\* patterns that carry label.
PrefixDistances(p, q, label) ==
    {d \in UNION {{Distance(p, q, s, Len(q), n) : n \in 0..Len(s)} :
                    s \in {t \in InputSequences : FirstLabel(t) = label}} :
        d <= p.distance_limit}

Least(S) == CHOOSE x \in S : \A y \in S : x <= y

\* C8: with non-negative penalties find_prefix(params, q, out) emits a pair for
\* exactly the labels whose stored pattern has a prefix within distance_limit of
\* q, and the distance emitted with a label is the least distance between q and
\* the prefixes of the patterns carrying the label.
C8_FuzzyPrefixResult ==
    Answered("fuzzy_find_prefix") /\ NonNegative(query.p) =>
        {out[i] : i \in 1..Len(out)} =
            {<<label, Least(PrefixDistances(query.p, query.sequence, label))>> :
                label \in {l \in Labels :
                            PrefixDistances(query.p, query.sequence, l) # {}}}

\* A label is collected at two distances, and the lesser is emitted.
C8_Witness ==
    /\ Answered("fuzzy_find_prefix")
    /\ NonNegative(query.p)
    /\ \E i, j \in 1..Len(results) :
        /\ results[i][1] = results[j][1]
        /\ results[i][2] < results[j][2]
        /\ results[i] \in {out[k] : k \in 1..Len(out)}
    /\ query.sequence # <<>>
    /\ Len(out) = 2

\* C9: no label appears in more than one pair of the output of
\* find_prefix(params, q, out), whatever the parameters.
C9_FuzzyPrefixDedup ==
    Answered("fuzzy_find_prefix") =>
        \A i, j \in 1..Len(out) : i # j => out[i][1] # out[j][1]

\* A label was collected from several visited states at different distances.
C9_Witness ==
    /\ Answered("fuzzy_find_prefix")
    /\ \E i, j \in 1..Len(results) :
        /\ results[i][1] = results[j][1]
        /\ results[i][2] # results[j][2]
    /\ query.sequence # <<>>
    /\ Len(out) >= 1

(***************************************************************************)
(* The links of aho_corasick                                               *)
(***************************************************************************)
RECURSIVE NearestAccepting(_)
\* The first accepting state met on the chain of suffix links that starts with
\* suffix_link(state); not_set when the chain reaches the root's link to itself
\* without meeting one.
NearestAccepting(state) ==
    LET sl == m_attributes[state].suffix_link
    IN  IF sl = state THEN not_set
        ELSE IF m_attributes[sl].is_accept THEN sl
        ELSE NearestAccepting(sl)

\* The automaton as the constructor leaves it; the queries are const and leave
\* it so.
LinksBuilt == pc = "ready" /\ kind = "aho_corasick"

\* C11: after the link construction accept_suffix_link(s) is, for every state
\* s, the first accepting state met when following the suffix links from s (s
\* excluded), and not_set only when that chain holds no accepting state; for
\* every input, the empty pattern (an accepting root) included.
C11_AcceptSuffixLinks ==
    LinksBuilt =>
        \A s \in DOMAIN m_attributes :
            m_attributes[s].accept_suffix_link = NearestAccepting(s)

\* C11 for the inputs without the empty pattern: what the construction does keep.
C11_AcceptSuffixLinks_NonEmptyPatterns ==
    LinksBuilt /\ <<>> \notin InputSequences =>
        \A s \in DOMAIN m_attributes :
            m_attributes[s].accept_suffix_link = NearestAccepting(s)

\* A state below the root's children whose accept link skips a state that does
\* not accept.
C11_Witness ==
    /\ LinksBuilt
    /\ <<>> \notin InputSequences
    /\ \E s \in DOMAIN m_attributes :
        /\ m_attributes[s].accept_suffix_link # not_set
        /\ m_attributes[s].accept_suffix_link # m_attributes[s].suffix_link

\* The number of transitions from the root to the state.
Depth(state) == Len(CHOOSE path \in Paths : StateOf(path) = state)

\* C12: after the link construction suffix_link(root) = root, and for every
\* other state s the state suffix_link(s) is strictly nearer to the root than s.
C12_SuffixLinkShallower ==
    LinksBuilt =>
        /\ m_attributes[root].suffix_link = root
        /\ LET depth == [s \in DOMAIN m_attributes |-> Depth(s)]
           IN  \A s \in DOMAIN m_attributes \ {root} :
                /\ m_attributes[s].suffix_link \in DOMAIN m_attributes
                /\ depth[m_attributes[s].suffix_link] < depth[s]

\* A state whose suffix link is not the root.
C12_Witness ==
    /\ LinksBuilt
    /\ \E s \in DOMAIN m_attributes :
        /\ Depth(s) = 3
        /\ Depth(m_attributes[s].suffix_link) = 2

(***************************************************************************)
(* The order of the emissions of match                                     *)
(***************************************************************************)
RECURSIVE EndingAt(_, _, _)
\* The labels of the non-empty stored patterns that occur in text ending at the
\* position i (after i symbols), from the pattern of length n down to length 1.
EndingAt(text, i, n) ==
    IF n = 0 THEN <<>>
    ELSE (IF SubSeq(text, i - n + 1, i) \in InputSequences
            THEN <<FirstLabel(SubSeq(text, i - n + 1, i))>>
            ELSE <<>>)
         \o EndingAt(text, i, n - 1)

\* The label of the empty pattern where it is stored and emitted at position i.
EmptyPatternAt(emitted, i) ==
    IF <<>> \in InputSequences /\ i \in emitted THEN <<FirstLabel(<<>>)>> ELSE <<>>

RECURSIVE InOrder(_, _, _)
\* The emissions in the claimed order from position i on: position by position,
\* and at one position from the longest pattern to the shortest.
InOrder(text, emitted, i) ==
    IF i > Len(text) THEN <<>>
    ELSE EndingAt(text, i, i) \o EmptyPatternAt(emitted, i)
            \o InOrder(text, emitted, i + 1)

\* C13: match emits the labels of the occurrences that end at a position before
\* every label of an occurrence that ends at a later position, and the labels
\* of the occurrences that end at one position from the longest pattern to the
\* shortest.
C13_EmissionOrder ==
    Answered("match") =>
        \E emitted \in SUBSET (1..Len(query.sequence)) :
            out = InOrder(query.sequence, emitted, 1)

\* Two patterns end at one position and one ends before it.
C13_Witness ==
    /\ Answered("match")
    /\ <<>> \notin InputSequences
    /\ \E i \in 2..Len(query.sequence) :
        /\ Len(EndingAt(query.sequence, i, i)) = 2
        /\ EndingAt(query.sequence, i, i)[1] # EndingAt(query.sequence, i, i)[2]
        /\ \E j \in 1..(i - 1) : EndingAt(query.sequence, j, j) # <<>>
    /\ Len(out) >= 3

(***************************************************************************)
(* fsm                                                                     *)
(***************************************************************************)
\* A step that is one call of the operation op.
Called(op) == pc = "ready" /\ pc' = "done" /\ query'.op = op

\* C14: add_transition(s, symbol) for a state s of the automaton, after any
\* earlier calls: when the transition exists it returns (its target, false) and
\* leaves size() and every transition as they were; otherwise it returns
\* (n, true) with n the size before the call, size() becomes n + 1 and
\* next(s, symbol) then returns (n, true). size() grows by exactly one if and
\* only if the flag returned is true.
C14_AddTransition ==
    [][Called("add_transition") =>
        LET s == query'.source
            symbol == query'.symbol
            n == fsm_size(m_transitions)
        IN  /\ s \in DOMAIN m_transitions
            /\ IF symbol \in DOMAIN m_transitions[s]
                THEN /\ out' = <<m_transitions[s][symbol], FALSE>>
                     /\ m_transitions' = m_transitions
                ELSE /\ out' = <<n, TRUE>>
                     /\ fsm_size(m_transitions') = n + 1
                     /\ fsm_next(m_transitions', s, symbol) = <<n, TRUE>>
            /\ out'[2] <=> fsm_size(m_transitions') = n + 1
            /\ ~out'[2] <=> fsm_size(m_transitions') = n
    ]_vars

\* A call that found the transition in place, from a state other than the root.
C14_Witness ==
    /\ kind = "fsm"
    /\ Answered("add_transition")
    /\ query.source # root
    /\ out[2] = FALSE
    /\ out[1] = m_transitions[query.source][query.symbol]
    /\ fsm_size(m_transitions) = 3

\* The post-condition of next for a source and a symbol.
NextPostcondition(source, symbol) ==
    LET n == fsm_next(m_transitions, source, symbol)
    IN  IF symbol \in DOMAIN m_transitions[source]
            THEN n[2] /\ n[1] = m_transitions[source][symbol] /\ n[1] # source
            ELSE ~n[2] /\ n[1] = source

\* C15: next(s, symbol) changes nothing in the automaton; it returns
\* (target, true) with target # s when the transition exists and (s, false)
\* otherwise, for every state and symbol of every reachable automaton.
C15_NextReadOnly ==
    /\ [](\A source \in DOMAIN m_transitions, symbol \in Symbols :
            NextPostcondition(source, symbol))
    /\ [](Answered("next") =>
            /\ out = fsm_next(m_transitions, query.source, query.symbol)
            /\ (out[2] /\ out[1] # query.source) \/ (~out[2] /\ out[1] = query.source))
    /\ [][Called("next") => m_transitions' = m_transitions]_vars

\* next found a transition from a state other than the root.
C15_Witness ==
    /\ kind = "fsm"
    /\ Answered("next")
    /\ query.source # root
    /\ out[2] = TRUE
    /\ out[1] = m_transitions[query.source][query.symbol]

(***************************************************************************)
(* Queries are read-only                                                   *)
(***************************************************************************)
RECURSIVE VisitedAnew(_, _, _)
\* What visit_close_states hands to the visitor of the query q when it runs
\* from the stack stk to the end with no other call in between.
VisitedAnew(q, stk, acc) ==
    IF stk = <<>> THEN acc
    ELSE LET source == stk[Len(stk)].state
             source_row == stk[Len(stk)].row
             popped == SubSeq(stk, 1, Len(stk) - 1)
             seen ==
                IF back(source_row) > q.p.distance_limit THEN <<>>
                ELSE IF q.op = "fuzzy_find"
                    THEN find_visitor(m_attributes, m_values, m_value_indices,
                                      source, back(source_row))
                    ELSE collect_reachable_with_distance(
                            m_reachable_accept_values, m_values, source, back(source_row))
         IN  VisitedAnew(q,
                         IF any_not_too_far_away(q.p, source_row)
                            THEN popped \o pushed(m_transitions, q.p, source, source_row,
                                                  q.sequence)
                            ELSE popped,
                         acc \o seen)

InitialStack(q) ==
    << [state |-> root,
        row |-> fill_initial_levenshtein_row(
                    q.p, [i \in 1..(Len(q.sequence) + 1) |-> 0], q.sequence)] >>

\* The outputs of the query q called once more on the structure as it is now.
Repeated(q) ==
    CASE q.op = "find" ->
            <<find(m_transitions, m_values, m_value_indices, q.sequence)>>
      [] q.op = "find_prefix" ->
            find_prefix(m_transitions, m_reachable_accept_values, m_values, q.sequence)
      [] q.op = "match" ->
            match(m_transitions, m_attributes, m_values, m_value_indices, root,
                  q.sequence, 0)
      [] q.op = "fuzzy_find" -> VisitedAnew(q, InitialStack(q), <<>>)
      [] q.op = "fuzzy_find_prefix" -> unique(sort(VisitedAnew(q, InitialStack(q), <<>>)))

\* The outputs of a call as a sequence: find returns one position.
Outputs(q, o) == IF q.op = "find" THEN <<o>> ELSE o

SameMultiset(a, b) ==
    /\ Len(a) = Len(b)
    /\ \A i \in 1..Len(a) : Count(a, a[i]) = Count(b, a[i])

RECURSIVE FirstOccurrences(_)
\* The labels of the pairs among the first n of the input whose sequence no
\* earlier pair has, in the order of the input.
FirstOccurrences(n) ==
    IF n = 0 THEN <<>>
    ELSE FirstOccurrences(n - 1)
            \o (IF \E j \in 1..(n - 1) : input[j][1] = input[n][1]
                    THEN <<>>
                    ELSE <<input[n][2]>>)

\* What a walk from begin() to end() dereferences.
Iteration == [k \in 1..(end(m_values) - begin) |-> value_at(m_values, begin + k - 1)]

RECURSIVE Constructed(_, _)
\* The structure build_trie leaves after the first n pairs of pairs.
Constructed(pairs, n) ==
    IF n = 0
        THEN [fsm |-> (root :> <<>>),
              attributes |-> (root :> DefaultAttribute),
              reachable |-> (root :> <<>>),
              values |-> <<>>,
              value_indices |-> <<>>]
        ELSE LET b == Constructed(pairs, n - 1)
             IN  build_trie(b.fsm, b.attributes, b.reachable, b.values, b.value_indices,
                            pairs[n][1], pairs[n][2])

Rearrangements(n) == {f \in [1..n -> 1..n] : \A i, j \in 1..n : f[i] = f[j] => i = j}

Permuted(pairs, f) == [i \in 1..Len(pairs) |-> pairs[f[i]]]

\* What find(q) leads to: the label found, or nothing for end().
Found(tr, values, value_indices, q) ==
    LET position == find(tr, values, value_indices, q)
    IN  IF position = end(values) THEN <<>> ELSE <<value_at(values, position)>>

PairwiseDistinct(pairs) ==
    \A i, j \in 1..Len(pairs) : pairs[i][1] = pairs[j][1] => i = j

\* C18: for an input whose sequences are pairwise distinct, the structure built
\* from any permutation of the input returns from find(q) the same label, or
\* end() alike, as the structure built from the input itself, for every q.
C18_OrderIndependence ==
    pc = "ready" /\ PairwiseDistinct(input) =>
        \A f \in Rearrangements(Len(input)) :
            LET b == Constructed(Permuted(input, f), Len(input))
            IN  \A q \in Queries :
                    Found(b.fsm, b.values, b.value_indices, q)
                        = Found(m_transitions, m_values, m_value_indices, q)

\* Two sequences with a common first symbol and different labels: the two
\* orders give the states and the value table different numbers.
C18_Witness ==
    /\ pc = "ready"
    /\ Len(input) = 2
    /\ PairwiseDistinct(input)
    /\ input[1][2] # input[2][2]
    /\ input[1][1] # <<>> /\ input[2][1] # <<>>
    /\ input[1][1][1] = input[2][1][1]
    /\ ~IsPrefixOf(input[1][1], input[2][1])
    /\ ~IsPrefixOf(input[2][1], input[1][1])
    /\ LET b == Constructed(Permuted(input, <<2, 1>>), 2)
       IN  /\ b.values # m_values
           /\ b.fsm # m_transitions

(***************************************************************************)
(* basic_trie and aho_corasick on one input                                *)
(***************************************************************************)
RECURSIVE FuzzyFound(_, _, _, _)
\* What the fuzzy find of a structure b writes for the parameters p and the
\* sequence pattern, from the stack stk on.
FuzzyFound(b, p, pattern, stk) ==
    IF stk = <<>> THEN <<>>
    ELSE LET source == stk[Len(stk)].state
             source_row == stk[Len(stk)].row
             popped == SubSeq(stk, 1, Len(stk) - 1)
         IN  (IF back(source_row) <= p.distance_limit
                THEN find_visitor(b.attributes, b.values, b.value_indices,
                                  source, back(source_row))
                ELSE <<>>)
             \o FuzzyFound(b, p, pattern,
                           IF any_not_too_far_away(p, source_row)
                              THEN popped \o pushed(b.fsm, p, source, source_row, pattern)
                              ELSE popped)

\* The trie a basic_trie builds from the input.
Trie == Constructed(input, Len(input))

\* C19: a trie and an aho_corasick built from one input give the same size(),
\* the same value table in the same order, the same result of find and the same
\* labels from find_prefix for every query, and the same multiset of pairs from
\* the fuzzy find; the construction of the links changes none of them.
C19_TrieAndAhoCorasickAgree ==
    kind = "aho_corasick" =>
        LET trie == Trie
        IN  /\ pc = "ready" =>
                /\ size(m_values) = size(trie.values)
                /\ m_values = trie.values
                /\ m_transitions = trie.fsm
                /\ m_value_indices = trie.value_indices
                /\ m_reachable_accept_values = trie.reachable
                /\ \A s \in DOMAIN m_attributes :
                    m_attributes[s].is_accept = trie.attributes[s].is_accept
                /\ \A q \in FuzzyQueries :
                    /\ find(m_transitions, m_values, m_value_indices, q)
                        = find(trie.fsm, trie.values, trie.value_indices, q)
                    /\ find_prefix(m_transitions, m_reachable_accept_values, m_values, q)
                        = find_prefix(trie.fsm, trie.reachable, trie.values, q)
            /\ Answered("fuzzy_find") =>
                SameMultiset(out, FuzzyFound(trie, query.p, query.sequence,
                                             InitialStack(query)))

\* An aho_corasick with links other than to the root has answered a fuzzy find
\* with two pairs.
C19_Witness ==
    /\ kind = "aho_corasick"
    /\ Answered("fuzzy_find")
    /\ Len(out) = 2
    /\ out[1] # out[2]
    /\ query.sequence # <<>>
    /\ \E s \in DOMAIN m_attributes : m_attributes[s].suffix_link # root

(***************************************************************************)
(* The structure built from no pairs                                       *)
(***************************************************************************)
\* The fsm holds the root alone, and the root has no transitions.
OnlyRoot ==
    /\ fsm_size(m_transitions) = 1
    /\ DOMAIN m_transitions = {root}
    /\ root = 0
    /\ visit_transitions(m_transitions, root) = <<>>

\* C20: a structure built from no pairs has empty() true and size() 0; find
\* returns end() for every sequence, the empty one included; match emits
\* nothing for every text; find_prefix and the fuzzy find emit nothing for
\* every query; its fsm has one state, the root with the identifier 0, and no
\* transitions, as a newly made fsm has.
C20_EmptyStructure ==
    /\ consumed = 0 => OnlyRoot
    /\ Built /\ input = <<>> =>
        /\ empty(m_values)
        /\ size(m_values) = 0
        /\ OnlyRoot
        /\ \A q \in Queries :
            /\ find(m_transitions, m_values, m_value_indices, q) = end(m_values)
            /\ find_prefix(m_transitions, m_reachable_accept_values, m_values, q) = <<>>
            /\ kind = "aho_corasick" =>
                match(m_transitions, m_attributes, m_values, m_value_indices,
                      root, q, 0) = <<>>
        /\ \A p \in Parameters, q \in FuzzyQueries :
            LET call == [op |-> "fuzzy_find", p |-> p, sequence |-> q]
            IN  VisitedAnew(call, InitialStack(call), <<>>) = <<>>
        /\ Answered("find") => out = end(m_values)
        /\ Answered("find_prefix") \/ Answered("match") => out = <<>>

\* match has read a text of the greatest length on the automaton of no pairs.
C20_Witness ==
    /\ input = <<>>
    /\ kind = "aho_corasick"
    /\ Answered("match")
    /\ Len(query.sequence) = MaxLen
    /\ out = <<>>
    /\ empty(m_values)

(***************************************************************************)
(* Empty sequences                                                         *)
(***************************************************************************)
\* C21: find of the empty sequence returns the position of the root's label if
\* and only if a pair with the empty sequence was in the input, and end()
\* otherwise; match of the empty text emits nothing for every automaton, also
\* for one whose root accepts.
C21_EmptySequences ==
    /\ pc = "ready" =>
        /\ LET found == find(m_transitions, m_values, m_value_indices, <<>>)
           IN  IF <<>> \in InputSequences
                   THEN /\ found # end(m_values)
                        /\ found = begin + m_value_indices[root]
                        /\ value_at(m_values, found) = FirstLabel(<<>>)
                   ELSE found = end(m_values)
        /\ kind = "aho_corasick" =>
            match(m_transitions, m_attributes, m_values, m_value_indices,
                  root, <<>>, 0) = <<>>
    /\ Answered("find") /\ query.sequence = <<>> =>
        (out # end(m_values)) = (<<>> \in InputSequences)
    /\ Answered("match") /\ query.sequence = <<>> => out = <<>>

\* match has read the empty text on an automaton whose root accepts and whose
\* value table holds the root's label after another one.
C21_Witness ==
    /\ Answered("match")
    /\ query.sequence = <<>>
    /\ out = <<>>
    /\ m_attributes[root].is_accept
    /\ find(m_transitions, m_values, m_value_indices, <<>>) = begin + 1

(***************************************************************************)
(* Invariants of the construction                                          *)
(***************************************************************************)
\* build_trie stands between two insertions, or the construction has ended.
Inserted == pc \in {"build_trie", "ready"}

\* The sequences of the pairs build_trie has processed.
InsertedSequences == {input[i][1] : i \in 1..consumed}

RECURSIVE Subtree(_)
\* The states reached from state by transitions, state among them.
Subtree(state) ==
    {state} \cup UNION {Subtree(m_transitions[state][symbol]) :
                            symbol \in DOMAIN m_transitions[state]}

\* C22: after every insertion of the construction every state has an entry in
\* the cache of reachable values, and the entry holds, each once, exactly the
\* value indices of the accepting states of the state's subtree, the state
\* included; the insertion of a sequence that was inserted before changes no
\* entry.
C22_ReachableValuesCache ==
    /\ [](Inserted =>
            /\ DOMAIN m_reachable_accept_values = DOMAIN m_transitions
            /\ \A s \in DOMAIN m_transitions :
                LET reachable == m_reachable_accept_values[s]
                IN  /\ \A i, j \in 1..Len(reachable) :
                            i # j => reachable[i] # reachable[j]
                    /\ {reachable[i] : i \in 1..Len(reachable)}
                        = {m_value_indices[t] :
                            t \in {u \in Subtree(s) : m_attributes[u].is_accept}})
    /\ [][pc = "build_trie" /\ consumed' = consumed + 1
            /\ input[consumed + 1][1] \in InsertedSequences
          => m_reachable_accept_values' = m_reachable_accept_values]_vars

\* After the second insertion a state other than the root holds two indices, of
\* a state under it and, attached later, of itself.
C22_Witness ==
    /\ pc = "build_trie"
    /\ consumed = 2
    /\ \E s \in DOMAIN m_transitions \ {root} :
        /\ Len(m_reachable_accept_values[s]) = 2
        /\ m_attributes[s].is_accept
        /\ m_reachable_accept_values[s][2] = m_value_indices[s]

\* C23: after every insertion is_accept(s) holds if and only if the state to
\* value index is defined on s; the indices of the accepting states are
\* pairwise different, and they are exactly 0 .. size() - 1.
C23_AcceptAndValueIndex ==
    Inserted =>
        /\ \A s \in DOMAIN m_attributes :
            m_attributes[s].is_accept <=> s \in DOMAIN m_value_indices
        /\ DOMAIN m_value_indices \subseteq DOMAIN m_attributes
        /\ \A s, t \in DOMAIN m_value_indices :
            s # t => m_value_indices[s] # m_value_indices[t]
        /\ {m_value_indices[s] : s \in DOMAIN m_value_indices} = 0..(size(m_values) - 1)

\* Two states accept, one of them the root, and a third state does not.
C23_Witness ==
    /\ pc = "build_trie"
    /\ consumed = 2
    /\ size(m_values) = 2
    /\ m_attributes[root].is_accept
    /\ \E s \in DOMAIN m_attributes : ~m_attributes[s].is_accept
    /\ \E s \in DOMAIN m_value_indices : s # root /\ m_value_indices[s] = 0

\* C24: after every insertion and at the end of the construction m_attributes
\* has a record for every state 0 .. size() - 1 of the fsm and for no other key,
\* so that the two sizes are equal, as build_trie asserts at its end.
C24_AttributeCoverage ==
    Inserted =>
        /\ DOMAIN m_transitions = 0..(fsm_size(m_transitions) - 1)
        /\ DOMAIN m_attributes = 0..(fsm_size(m_transitions) - 1)
        /\ Cardinality(DOMAIN m_attributes) = fsm_size(m_transitions)

\* The second insertion has walked a part of the path of the first and grown
\* the rest: four states, each with its record.
C24_Witness ==
    /\ pc = "build_trie"
    /\ consumed = 2
    /\ input[1][1] # <<>>
    /\ Len(input[2][1]) > Len(input[1][1])
    /\ fsm_size(m_transitions) = 4
    /\ Cardinality(DOMAIN m_transitions[root]) = 1
    /\ DOMAIN m_attributes = 0..3

\* The transitions that lead to state: their (source, symbol) pairs.
Incoming(state) ==
    {t \in UNION {{<<source, symbol>> : symbol \in DOMAIN m_transitions[source]} :
                    source \in DOMAIN m_transitions} :
        m_transitions[t[1]][t[2]] = state}

\* C25: after any insertions the transitions form a tree: every transition leads
\* to a state with a greater identifier than its source's, the root has no
\* incoming transition, every other state has exactly one, and every state is
\* reached from the root.
C25_TransitionsFormTree ==
    Inserted =>
        /\ \A source \in DOMAIN m_transitions :
            \A symbol \in DOMAIN m_transitions[source] :
                /\ m_transitions[source][symbol] \in DOMAIN m_transitions
                /\ m_transitions[source][symbol] > source
        /\ Incoming(root) = {}
        /\ \A s \in DOMAIN m_transitions \ {root} : Cardinality(Incoming(s)) = 1
        /\ Subtree(root) = DOMAIN m_transitions

\* Two insertions have made a tree that branches below the root.
C25_Witness ==
    /\ pc = "build_trie"
    /\ consumed = 2
    /\ fsm_size(m_transitions) = 4
    /\ \E s \in DOMAIN m_transitions \ {root} :
        Cardinality(DOMAIN m_transitions[s]) = 2

(***************************************************************************)
(* The order of the link construction                                      *)
(***************************************************************************)
\* A state whose links build_suffix_links has written.
LinksSet(attrs, state) == attrs[state].suffix_link # not_set

RECURSIVE WalkedAreSet(_, _, _, _)
\* next(source, symbol) reads the suffix link of every state other than the
\* root it finds without a transition by symbol: each is set.
WalkedAreSet(tr, attrs, source, symbol) ==
    \/ is_root(source)
    \/ fsm_next(tr, source, symbol)[2]
    \/ /\ LinksSet(attrs, source)
       /\ WalkedAreSet(tr, attrs, attrs[source].suffix_link, symbol)

RECURSIVE ReadsAreSet(_, _, _, _)
\* The visitor of the transitions of the dequeued state source, one transition
\* after the other: the link of source is set, the links next walks through
\* are set, and the state sl it arrives at has its links written, and is none
\* of the states this visit is still to write.
ReadsAreSet(tr, attrs, source, transitions) ==
    \/ transitions = <<>>
    \/ LET symbol == Head(transitions)[1]
           destination == Head(transitions)[2]
       IN  /\ LinksSet(attrs, source)
           /\ WalkedAreSet(tr, attrs, attrs[source].suffix_link, symbol)
           /\ LET sl == next(tr, attrs, attrs[source].suffix_link, symbol)[1]
              IN  /\ LinksSet(attrs, sl)
                  /\ \A i \in 1..Len(transitions) : transitions[i][2] # sl
           /\ ReadsAreSet(tr, set_links(tr, attrs, source, symbol, destination),
                          source, Tail(transitions))

\* C26: when build_suffix_links computes next(suffix_link(s), symbol) for a
\* dequeued state s, the suffix link of s and of every state the call walks
\* through is set already, and the state sl it returns has its links written;
\* links once written are never written again, so that the accept_suffix_link
\* copied from sl is the final one.
C26_LinksReadAreSet ==
    /\ [](pc = "build_suffix_links_loop" /\ states # <<>> =>
            ReadsAreSet(m_transitions, m_attributes, Head(states),
                        visit_transitions(m_transitions, Head(states))))
    /\ [][\A s \in DOMAIN m_attributes :
            LinksSet(m_attributes, s) => m_attributes'[s] = m_attributes[s]]_vars

\* The dequeued state has a transition by a symbol its suffix link, which is
\* not the root, has no transition by: next goes on to the link of the link.
C26_Witness ==
    /\ pc = "build_suffix_links_loop"
    /\ states # <<>>
    /\ LET source == Head(states)
       IN  \E symbol \in DOMAIN m_transitions[source] :
            /\ ~is_root(m_attributes[source].suffix_link)
            /\ ~fsm_next(m_transitions, m_attributes[source].suffix_link, symbol)[2]

(***************************************************************************)
(* The transition function of aho_corasick                                 *)
(***************************************************************************)
RECURSIVE Chain(_, _)
\* The suffix-link chain of state: state, its suffix link, the link of the
\* link and so on to the root; cut after n states.
Chain(state, n) ==
    IF n = 0 THEN <<>>
    ELSE IF is_root(state) THEN <<state>>
    ELSE <<state>> \o Chain(m_attributes[state].suffix_link, n - 1)

\* The first state of chain that has a transition by symbol; not_set when none
\* has.
FirstWithTransition(chain, symbol) ==
    IF \E i \in 1..Len(chain) : symbol \in DOMAIN m_transitions[chain[i]]
        THEN chain[CHOOSE i \in 1..Len(chain) :
                    /\ symbol \in DOMAIN m_transitions[chain[i]]
                    /\ \A j \in 1..(i - 1) : symbol \notin DOMAIN m_transitions[chain[j]]]
        ELSE not_set

\* C27: after the link construction next(s, symbol) ends for every state s and
\* every symbol (the chain of s reaches the root within size() states, none of
\* them twice) and returns success = true; the state it returns is the target
\* of the first state of the chain of s, s first, that has a transition by
\* symbol, and the root when no state of the chain has one.
C27_NextOfAhoCorasick ==
    LinksBuilt =>
        \A s \in DOMAIN m_transitions :
            LET chain == Chain(s, fsm_size(m_transitions) + 1)
            IN  /\ Len(chain) <= fsm_size(m_transitions)
                /\ is_root(chain[Len(chain)])
                /\ \A i, j \in 1..Len(chain) : i # j => chain[i] # chain[j]
                /\ \A symbol \in Symbols :
                    LET first == FirstWithTransition(chain, symbol)
                    IN  next(m_transitions, m_attributes, s, symbol)
                            = <<IF first = not_set THEN root
                                    ELSE m_transitions[first][symbol],
                                TRUE>>

\* For some state and symbol the transition is found at the third state of the
\* chain, and for some state and symbol at none.
C27_Witness ==
    /\ LinksBuilt
    /\ \E s \in DOMAIN m_transitions, symbol \in Symbols :
        LET chain == Chain(s, fsm_size(m_transitions))
        IN  /\ Len(chain) = 3
            /\ FirstWithTransition(chain, symbol) = chain[3]
    /\ \E s \in DOMAIN m_transitions, symbol \in Symbols :
        LET chain == Chain(s, fsm_size(m_transitions))
        IN  /\ Len(chain) = 3
            /\ FirstWithTransition(chain, symbol) = not_set

(***************************************************************************)
(* The pruning of the fuzzy traversal                                      *)
(***************************************************************************)
MinOf(row) == Least({row[i] : i \in 1..Len(row)})

RECURSIVE Descendants(_, _, _, _, _)
\* The states under state, each with the row fill_levenshtein_row gives it
\* when the traversal comes down to it from state with the row row.
Descendants(tr, p, pattern, state, row) ==
    LET children == pushed(tr, p, state, row, pattern)
    IN  {children[i] : i \in 1..Len(children)}
        \cup UNION {Descendants(tr, p, pattern, children[i].state, children[i].row) :
                        i \in 1..Len(children)}

\* The row visit_close_states starts with at the root.
InitialRow(q) ==
    fill_initial_levenshtein_row(q.p, [i \in 1..(Len(q.sequence) + 1) |-> 0], q.sequence)

\* C28: with penalties that are not negative, the least entry of the row of a
\* child is not less than the least entry of the row of its parent; so under a
\* state whose row has every entry above distance_limit no state has its last
\* cell within the limit, and the traversal, which does not go under such a
\* state, visits every state whose last cell is within the limit.
C28_PruningInvariant ==
    /\ pc = "visit_close_states" /\ stack # <<>> /\ NonNegative(query.p) =>
        LET top == stack[Len(stack)]
            children == pushed(m_transitions, query.p, top.state, top.row, query.sequence)
        IN  /\ \A i \in 1..Len(children) : MinOf(children[i].row) >= MinOf(top.row)
            /\ (\A i \in 1..Len(top.row) : top.row[i] > query.p.distance_limit) =>
                \A d \in Descendants(m_transitions, query.p, query.sequence,
                                     top.state, top.row) :
                    /\ back(d.row) > query.p.distance_limit
                    /\ MinOf(d.row) >= MinOf(top.row)
    /\ Answered("fuzzy_find") /\ NonNegative(query.p) =>
        \A d \in Descendants(m_transitions, query.p, query.sequence,
                             root, InitialRow(query)) :
            back(d.row) <= query.p.distance_limit =>
                \E i \in 1..Len(visited) : visited[i] = d.state

\* The traversal, which has emitted a pair, stands at a state with a state
\* under it and with a row whose every entry is above the limit; the
\* penalties are not the default ones.
C28_Witness ==
    /\ pc = "visit_close_states"
    /\ stack # <<>>
    /\ NonNegative(query.p)
    /\ ~query.p.default_functors
    /\ out # <<>>
    /\ LET top == stack[Len(stack)]
       IN  /\ \A i \in 1..Len(top.row) : top.row[i] > query.p.distance_limit
           /\ DOMAIN m_transitions[top.state] # {}
           /\ Len(top.row) > 1

(***************************************************************************)
(* The walk of collect_matching                                            *)
(***************************************************************************)
RECURSIVE AcceptChain(_, _)
\* The states the loop of collect_matching visits from state on, cut after n
\* states.
AcceptChain(state, n) ==
    IF state = not_set \/ n = 0 THEN <<>>
    ELSE <<state>> \o AcceptChain(m_attributes[state].accept_suffix_link, n - 1)

\* C29: for every state s the loop of collect_matching, which follows
\* accept_suffix_link from s, visits accepting states only, as it asserts, each
\* nearer to the root than the one before and the first nearer than s, and it
\* comes to not_set within as many steps as s is deep; so match, which calls
\* collect_matching once for every symbol of the text, ends.
C29_AcceptSuffixChain ==
    /\ LinksBuilt =>
        \A s \in DOMAIN m_attributes :
            LET chain == AcceptChain(m_attributes[s].accept_suffix_link,
                                     fsm_size(m_transitions) + 1)
            IN  /\ Len(chain) <= Depth(s)
                /\ \A i \in 1..Len(chain) :
                    /\ chain[i] \in DOMAIN m_attributes
                    /\ m_attributes[chain[i]].is_accept
                    /\ chain[i] \in DOMAIN m_value_indices
                    /\ Depth(chain[i]) < Depth(IF i = 1 THEN s ELSE chain[i - 1])
    /\ Answered("match") =>
        Len(out) <= Len(query.sequence) * fsm_size(m_transitions)

\* The accept_suffix_link of a state passes over the state's suffix link, which
\* does not accept, to an accepting state further on, and match has emitted
\* labels from such chains.
C29_Witness ==
    /\ Answered("match")
    /\ Len(out) >= 3
    /\ \E s \in DOMAIN m_attributes :
        /\ m_attributes[s].accept_suffix_link # not_set
        /\ m_attributes[s].accept_suffix_link # m_attributes[s].suffix_link
        /\ ~is_root(m_attributes[s].accept_suffix_link)

(***************************************************************************)
(* The end of the fuzzy traversal                                          *)
(***************************************************************************)
Reverse(sequence) == [i \in 1..Len(sequence) |-> sequence[Len(sequence) + 1 - i]]

RECURSIVE VisitedReversed(_, _, _)
\* The states visit_close_states would pop, in order, if the transitions of
\* every state were pushed in the opposite order.
VisitedReversed(q, stk, acc) ==
    IF stk = <<>> THEN acc
    ELSE LET top == stk[Len(stk)]
             popped == SubSeq(stk, 1, Len(stk) - 1)
         IN  VisitedReversed(
                q,
                IF \E i \in 1..Len(top.row) : top.row[i] <= q.p.distance_limit
                    THEN popped \o Reverse(pushed(m_transitions, q.p, top.state,
                                                  top.row, q.sequence))
                    ELSE popped,
                Append(acc, top.state))

RECURSIVE Visitable(_, _, _)
\* The states the traversal is to visit from state down, whatever the order:
\* state, and what is to be visited from each child when some entry of row is
\* within the limit.
Visitable(q, state, row) ==
    {state} \cup
    (IF \E i \in 1..Len(row) : row[i] <= q.p.distance_limit
        THEN LET children == pushed(m_transitions, q.p, state, row, q.sequence)
             IN  UNION {Visitable(q, children[i].state, children[i].row) :
                            i \in 1..Len(children)}
        ELSE {})

Range(sequence) == {sequence[i] : i \in 1..Len(sequence)}

\* C30: the traversal visit_close_states ends for every structure, query and
\* parameters; it pops no state twice, a state being pushed by its one parent
\* only, so that the fuzzy find emits at most one pair for a stored pattern;
\* and the set of the states it visits is the same whatever the order the
\* transitions are pushed in.
C30_TraversalEnds ==
    /\ [](pc \in {"visit_close_states", "done"} =>
            /\ \A i, j \in 1..Len(visited) : i # j => visited[i] # visited[j]
            /\ \A i, j \in 1..Len(stack) : i # j => stack[i].state # stack[j].state
            /\ \A i \in 1..Len(stack) : stack[i].state \notin Range(visited)
            /\ Len(visited) + Len(stack) <= fsm_size(m_transitions)
            /\ Len(out) <= Cardinality(InputSequences)
            /\ \A s \in InputSequences :
                Cardinality({i \in 1..Len(out) : out[i][1] = FirstLabel(s)})
                    <= Cardinality({t \in InputSequences : FirstLabel(t) = FirstLabel(s)}))
    /\ [](Answered("fuzzy_find") =>
            /\ Range(visited) = Visitable(query, root, InitialRow(query))
            /\ Range(visited) = Range(VisitedReversed(query, InitialStack(query), <<>>)))
    /\ [][pc = "visit_close_states" /\ pc' = "visit_close_states"
            => Len(visited') = Len(visited) + 1]_vars
    /\ (pc = "visit_close_states") ~> (pc = "done")

\* The traversal has visited three states and emitted two pairs; with the
\* transitions pushed in the opposite order it would have visited the same
\* states in another order.
C30_Witness ==
    /\ Answered("fuzzy_find")
    /\ Len(visited) = 3
    /\ Len(out) = 2
    /\ query.sequence # <<>>
    /\ NonNegative(query.p)
    /\ visited # VisitedReversed(query, InitialStack(query), <<>>)

====
